---- MODULE Spec2Model ----
(***************************************************************************)
(* The two passcode bridges of pokemon-lottery-check:                      *)
(*   src/server.js          Gmail bridge  (REST, OAuth files)              *)
(*   src/unnamed/part_003   iCloud bridge (IMAP, app password)             *)
(* and the lottery scripts (src/gmail_check.js, src/icloud_check.js,       *)
(* src/unnamed/part_001, src/unnamed/part_002).                            *)
(* Time is counted in units of 60 000 ms (one minute), so                  *)
(* LAST_MINUTES * 60 * 1000 ms is LAST_MINUTES units and the iCloud        *)
(* clamp slack of 60_000 ms is one unit.                                   *)
(***************************************************************************)
EXTENDS Integers, Sequences, FiniteSets, TLC

VARIABLES
    provider,   \* "gmail" (src/server.js) or "icloud" (src/unnamed/part_003)
    creds,      \* TRUE iff the credential files / ICLOUD_USER+password exist
    cfg,        \* the configuration read from the environment at startup
    proc,       \* "init" before listen(), "listening" after, "crashed"
                \* once an unhandled rejection has ended the process
    clock,      \* what Date.now() returns
    mailbox,    \* the messages of the mailbox, in arrival (UID) order
    req,        \* per request slot: the handler's position and locals
    exText,     \* extract6Digits harness: the text
    exOut,      \* extract6Digits harness: the returned value
    exPc,       \* extract6Digits harness: "ready" | "done"
    lot         \* the lottery scripts: the listed mails, the loop's position
                \* and resultMap

vars == <<provider, creds, cfg, proc, clock, mailbox, req, exText, exOut, exPc, lot>>

bridgeVars == <<provider, creds, cfg, proc, clock, mailbox, req>>
exVars == <<exText, exOut, exPc>>
lotVars == <<lot>>

(***************************************************************************)
(* Texts.  A text is a sequence of tokens; a token is a maximal piece of   *)
(* the string that the four regular expressions of extract6Digits treat    *)
(* alike.  n is the number of characters, ds the digits of a digit run.    *)
(*   open  "【"      close "】"     label "パスコード"    colon ":" / "："   *)
(*   sp    run of spaces and tabs   nl "\n"   cr "\r"                        *)
(*   w     ASCII letters (word characters)                                  *)
(*   p     other characters: neither digit, word character, white space    *)
(*         nor part of the label                                           *)
(*   dig   run of digits                                                   *)
(***************************************************************************)
Null == <<>>

Tok(k, n) == [k |-> k, n |-> n, ds |-> <<>>]
Dig(ds) == [k |-> "dig", n |-> Len(ds), ds |-> ds]

LABEL_LEN == 5
NEAR_GAP == 240
CODE_LEN == 6

tOpen == Tok("open", 1)
tClose == Tok("close", 1)
tLabel == Tok("label", LABEL_LEN)
tColon == Tok("colon", 1)
tSp == Tok("sp", 2)
tNl == Tok("nl", 1)
tCr == Tok("cr", 1)
tW == Tok("w", 1)
tP == Tok("p", NEAR_GAP)
digA == Dig(<<1, 1, 1, 1, 1, 1>>)
digB == Dig(<<2, 2, 2, 2, 2, 2>>)

RECURSIVE Squeeze(_)
\* /[ \t]+/g -> ' ' on a text without "\r": every run of spaces and tabs
\* becomes one space; digit runs that have become adjacent are one run.
Squeeze(s) ==
    IF s = <<>> THEN <<>>
    ELSE LET h == IF s[1].k = "sp" THEN Tok("sp", 1) ELSE s[1]
             r == Squeeze(Tail(s))
         IN  IF r = <<>> THEN <<h>>
             ELSE IF h.k = "sp" /\ r[1].k = "sp" THEN r
             ELSE IF h.k = "dig" /\ r[1].k = "dig"
                  THEN <<Dig(h.ds \o r[1].ds)>> \o Tail(r)
             ELSE <<h>> \o r

\* String(text).replace(/\r/g, '').replace(/[ \t]+/g, ' ')
Normalize(text) == Squeeze(SelectSeq(text, LAMBDA t : t.k # "cr"))

IsWs(t) == t.k \in {"sp", "nl"}

RECURSIVE SkipWs(_, _)
\* \s* : the index of the first token at or after i that is not white space
SkipWs(t, i) == IF i <= Len(t) /\ IsWs(t[i]) THEN SkipWs(t, i + 1) ELSE i

\* ([0-9]{6}) at the start of token j
SixAt(t, j) == j <= Len(t) /\ t[j].k = "dig" /\ t[j].n >= CODE_LEN
Capture(t, j) == SubSeq(t[j].ds, 1, CODE_LEN)

KindAt(t, j, k) == j <= Len(t) /\ t[j].k = k

MinOf(S) == CHOOSE x \in S : \A y \in S : x <= y

\* /【\s*パスコード\s*】\s*([0-9]{6})/
P1Lab(t, i) == SkipWs(t, i + 1)
P1Close(t, i) == SkipWs(t, P1Lab(t, i) + 1)
P1End(t, i) == SkipWs(t, P1Close(t, i) + 1)
P1Starts(t) ==
    {i \in 1..Len(t) : /\ t[i].k = "open"
                       /\ KindAt(t, P1Lab(t, i), "label")
                       /\ KindAt(t, P1Close(t, i), "close")
                       /\ SixAt(t, P1End(t, i))}
\* the capture of the leftmost match, as String.prototype.match gives it
Match1(t) ==
    IF P1Starts(t) = {} THEN Null ELSE Capture(t, P1End(t, MinOf(P1Starts(t))))

\* /パスコード\s*[:：]?\s*([0-9]{6})/
P2End(t, i) ==
    LET j == SkipWs(t, i + 1)
    IN  IF KindAt(t, j, "colon") THEN SkipWs(t, j + 1) ELSE j
P2Starts(t) == {i \in 1..Len(t) : t[i].k = "label" /\ SixAt(t, P2End(t, i))}
Match2(t) ==
    IF P2Starts(t) = {} THEN Null ELSE Capture(t, P2End(t, MinOf(P2Starts(t))))

RECURSIVE GapLen(_, _, _)
\* the number of characters of tokens i+1 .. j-1
GapLen(t, i, j) == IF i + 1 >= j THEN 0 ELSE t[i + 1].n + GapLen(t, i + 1, j)

\* /パスコード[\s\S]{0,240}?([0-9]{6})/ : the lazy gap ends at the first run
\* of six digits after the label, which must begin within 240 characters.
P3Runs(t, i) == {j \in (i + 1)..Len(t) : SixAt(t, j)}
P3End(t, i) == MinOf(P3Runs(t, i))
P3Starts(t) ==
    {i \in 1..Len(t) : /\ t[i].k = "label"
                       /\ P3Runs(t, i) # {}
                       /\ GapLen(t, i, P3End(t, i)) <= NEAR_GAP}
Match3(t) ==
    IF P3Starts(t) = {} THEN Null ELSE Capture(t, P3End(t, MinOf(P3Starts(t))))

\* /\b([0-9]{6})\b/ : a run of exactly six digits with no word character
\* on either side
P4Starts(t) ==
    {j \in 1..Len(t) : /\ t[j].k = "dig" /\ t[j].n = CODE_LEN
                       /\ (j > 1 => t[j - 1].k # "w")
                       /\ (j < Len(t) => t[j + 1].k # "w")}
Match4(t) == IF P4Starts(t) = {} THEN Null ELSE Capture(t, MinOf(P4Starts(t)))

extract6DigitsFallbackFirst(text) ==
    IF text = <<>> THEN Null
    ELSE LET norm == Normalize(text)
         IN  IF Match4(norm) # Null THEN Match4(norm)
             ELSE IF Match1(norm) # Null THEN Match1(norm)
             ELSE IF Match2(norm) # Null THEN Match2(norm)
             ELSE Match3(norm)

\* only the bracketed form is recognised
extract6DigitsBracketOnly(text) ==
    IF text = <<>> THEN Null ELSE Match1(Normalize(text))

extract6Digits(text) ==
    IF text = <<>> THEN Null
    ELSE LET norm == Normalize(text)
         IN  IF Match1(norm) # Null THEN Match1(norm)
             ELSE IF Match2(norm) # Null THEN Match2(norm)
             ELSE IF Match3(norm) # Null THEN Match3(norm)
             ELSE Match4(norm)


(***************************************************************************)
(* Configuration, clock and the ECMAScript time range.                     *)
(***************************************************************************)
\* LAST_MINUTES, QUERY_MINUTES, CODE_SCAN_LIMIT as read from the environment
CfgSet == {[last |-> 2, query |-> 3, scanLimit |-> 2]}

\* `after > now + 60_000`: 60 000 ms is one time unit
CLAMP_SLACK == 1
\* IMAP SINCE compares dates, not times: the units of one day
MINUTES_PER_DAY == 1440
\* Date.prototype.toISOString throws a RangeError for a time value beyond
\* +-8.64e15 ms; on the model's scale every time value above DATE_MAX
DATE_MAX == 9

NowSet == {5}

(***************************************************************************)
(* Addresses and recipient header values.                                  *)
(***************************************************************************)
OBJECT_STRING == "[object Object]"

\* String.prototype.toLowerCase on the strings of the model
toLowerCase(s) ==
    CASE s = "A@x" -> "a@x"
      [] s = OBJECT_STRING -> "[object object]"
      [] OTHER -> s

\* One comma-separated piece of a header value: `Name <addr>` or `addr`
Entry(addr) == [angle |-> FALSE, addr |-> addr]
Named(addr) == [angle |-> TRUE, addr |-> addr]

\* .map(x => x.toLowerCase()) on the addresses of a list
LowerAll(s) == [i \in 1..Len(s) |-> toLowerCase(s[i].addr)]

\* extractEmails: split(','), trim, take <...> when present, drop empty
\* pieces, lower-case
extractEmails(headerValue) ==
    LowerAll(SelectSeq(headerValue, LAMBDA e : e.addr # ""))

\* The values normalizeToList is called with:
\*   absent   undefined / null / ''
\*   string   a raw header string
\*   addrobj  mailparser AddressObject { value: [{address, name}], text }
\*   array    imapflow envelope list [{name, address}]: no .value, no .text
Absent == [kind |-> "absent", items |-> <<>>]
AsString(items) == IF items = <<>> THEN Absent ELSE [kind |-> "string", items |-> items]
AsAddrObj(items) == IF items = <<>> THEN Absent ELSE [kind |-> "addrobj", items |-> items]
AsArray(items) == [kind |-> "array", items |-> items]

normalizeToList(v) ==
    CASE v.kind = "absent" -> <<>>
      [] v.kind = "string" -> extractEmails(v.items)
      [] v.kind = "addrobj" ->
            SelectSeq(LowerAll(v.items), LAMBDA a : a # "")
      [] OTHER -> <<>>

\* String(hdr.get(name) || '').toLowerCase() as a header value: an object
\* stringifies to "[object Object]"
StringOf(v) ==
    CASE v.kind = "absent" -> <<>>
      [] v.kind = "string" -> v.items
      [] OTHER -> <<Entry(OBJECT_STRING)>>

Includes(s, x) == \E i \in 1..Len(s) : s[i] = x

(***************************************************************************)
(* Messages.                                                               *)
(***************************************************************************)
\* SUBJECT_KEYWORD is written "kw" in the subjects of the model;
\* subject.includes(SUBJECT_KEYWORD):
\* no subject test at all
SubjectAny(subject) == TRUE

SubjectIncludesKeyword(subject) == subject \in {"kw", "pre kw post"}

NoHdr == [to |-> <<>>, cc |-> <<>>, bcc |-> <<>>, delivered |-> <<>>, xorig |-> <<>>]
NoEnv == [to |-> <<>>, cc |-> <<>>, bcc |-> <<>>]

tLabelled == <<tOpen, tLabel, tClose, digA>>
tBare == <<digB>>
tNoCode == <<tW>>

\* received: the backend's receipt time, which its time query uses;
\* internalDate: what get/fetchOne reports (0 when it reports none)
BaseMsg ==
    [received |-> 4, internalDate |-> 4, subject |-> "kw",
     hdr |-> [NoHdr EXCEPT !.to = <<Entry("a@x")>>],
     env |-> [NoEnv EXCEPT !.to = <<"a@x">>],
     snippet |-> tLabelled, plain |-> tLabelled, html |-> <<>>,
     seen |-> FALSE]

MsgDomain ==
    { BaseMsg,
      \* time
      [BaseMsg EXCEPT !.received = 1, !.internalDate = 1],
      [BaseMsg EXCEPT !.received = 2, !.internalDate = 2],
      [BaseMsg EXCEPT !.received = 2, !.internalDate = 0],
      [BaseMsg EXCEPT !.received = 6, !.internalDate = 6],
      \* subject
      [BaseMsg EXCEPT !.subject = "other"],
      \* recipients
      [BaseMsg EXCEPT !.hdr = NoHdr, !.env = NoEnv],
      [BaseMsg EXCEPT !.hdr = [NoHdr EXCEPT !.to = <<Named("A@x")>>],
                      !.env = NoEnv],
      [BaseMsg EXCEPT !.hdr = [NoHdr EXCEPT !.cc = <<Entry("b@x")>>],
                      !.env = [NoEnv EXCEPT !.cc = <<"b@x">>]],
      [BaseMsg EXCEPT !.hdr = [NoHdr EXCEPT !.to = <<Entry("b@x")>>],
                      !.env = [NoEnv EXCEPT !.to = <<"b@x">>]],
      [BaseMsg EXCEPT !.hdr = [NoHdr EXCEPT !.xorig = <<Entry("a@x")>>],
                      !.env = NoEnv],
      \* text
      [BaseMsg EXCEPT !.snippet = tNoCode, !.plain = tNoCode],
      [BaseMsg EXCEPT !.snippet = tBare, !.plain = tBare, !.html = tLabelled],
      [BaseMsg EXCEPT !.snippet = <<>>, !.plain = <<>>, !.html = tLabelled] }

MaxMsgs == 2

RECURSIVE SeqsUpTo(_, _)
SeqsUpTo(S, n) ==
    IF n = 0 THEN {<<>>}
    ELSE LET shorter == SeqsUpTo(S, n - 1)
         IN  shorter \cup {Append(s, x) : s \in {t \in shorter : Len(t) = n - 1}, x \in S}

\* getHeader(headers, name): the header's value, '' when it is absent
getHeader(m, name) == AsString(m.hdr[name])

\* decodeBodyFromPayload: the first text/plain part with data, else the
\* first text/html part with data, else ''
decodeBodyFromPayload(m) == IF m.plain # <<>> THEN m.plain ELSE m.html


(***************************************************************************)
(* Requests.  Every request slot holds the position of one invocation of   *)
(* the http.createServer handler and the locals of listRecent / getCode.   *)
(***************************************************************************)
Slots == {1, 2}

NoResult ==
    [found |-> FALSE, code |-> Null, reason |-> "", reasonTs |-> 0,
     where |-> "", internalDate |-> 0, list |-> <<>>]

NoBody == [ok |-> FALSE, error |-> "", result |-> NoResult]

\* the headers sendJson passes to res.writeHead
JsonHeaders ==
    [contentType |-> "application/json; charset=utf-8", allowOrigin |-> "*",
     allowMethods |-> "GET, OPTIONS", allowHeaders |-> "Content-Type"]
NoHeaders ==
    [contentType |-> "", allowOrigin |-> "", allowMethods |-> "", allowHeaders |-> ""]

IdleReq ==
    [pc |-> "idle", kind |-> "none", to |-> "", after |-> 0, limit |-> 0,
     now |-> 0, want |-> "", minTs |-> 0, cand |-> <<>>, idx |-> 0,
     mode |-> "", out |-> <<>>, result |-> NoResult, err |-> "",
     session |-> "none", log |-> <<>>, status |-> 0, headers |-> NoHeaders,
     body |-> NoBody, nresp |-> 0]

Call(op, uid, ok) == [op |-> op, uid |-> uid, ok |-> ok]

Max(a, b) == IF a >= b THEN a ELSE b
Min(a, b) == IF a <= b THEN a ELSE b

Reverse(s) == [i \in 1..Len(s) |-> s[Len(s) + 1 - i]]

\* Array.prototype.slice(-k) for k >= 0: the last k elements; slice(-0) is
\* slice(0), the whole array
SliceLast(s, k) ==
    IF k = 0 \/ k >= Len(s) THEN s ELSE SubSeq(s, Len(s) - k + 1, Len(s))

\* slice(0, k) as the backend applies maxResults
Take(s, k) == IF k >= Len(s) THEN s ELSE SubSeq(s, 1, k)

\* the indices (UIDs) of the messages of mb, ascending
Uids(mb) == [i \in 1..Len(mb) |-> i]

DayOf(t) == t \div MINUTES_PER_DAY

\* gmail.users.messages.list for getCode:
\*   q = newer_than:<QUERY_MINUTES>m subject:("<keyword>"), newest first,
\*   at most maxResults = CODE_SCAN_LIMIT ids
GmailListCode(mb, now) ==
    Take(Reverse(SelectSeq(Uids(mb),
                           LAMBDA i : /\ mb[i].received >= now - cfg.query
                                      /\ SubjectIncludesKeyword(mb[i].subject))),
         cfg.scanLimit)

\* gmail.users.messages.list for listRecent:
\*   q = newer_than:<QUERY_MINUTES>m, maxResults = min(max(limit, 1), 50)
GmailListRecent(mb, now, limit) ==
    Take(Reverse(SelectSeq(Uids(mb), LAMBDA i : mb[i].received >= now - cfg.query)),
         Min(Max(limit, 1), 50))

\* client.search({ since }): the UIDs, ascending, of the messages received
\* on or after the day of `since`
ImapSearch(mb, now) ==
    SelectSeq(Uids(mb), LAMBDA i : DayOf(mb[i].received) >= DayOf(now - cfg.query))

\* uids.slice(-Math.min(CODE_SCAN_LIMIT, uids.length)).reverse()
ImapNewestCode(uids) == Reverse(SliceLast(uids, Min(cfg.scanLimit, Len(uids))))

\* uids.slice(-Math.min(Math.max(limit * 5, 20), 300)).reverse()
ImapNewestRecent(uids, limit) ==
    Reverse(SliceLast(uids, Min(Max(limit * 5, 20), 300)))

\* the iCloud bridge replaces a watermark beyond now + 60 s by now; the
\* Gmail bridge uses Number(afterTs || 0) as it is
ClampAfter(after, now) ==
    IF provider = "icloud" /\ after > now + CLAMP_SLACK THEN now ELSE after

\* minTs = Math.max(after, now - LAST_MINUTES * 60 * 1000)
MinTs(after, now) == Max(ClampAfter(after, now), now - cfg.last)

\* `if (internalDate && internalDate < minTs) continue`
TooOld(internalDate, minTs) == internalDate # 0 /\ internalDate < minTs

\* Gmail: addrPool of To, Delivered-To, X-Original-To
GmailPool(m) ==
    extractEmails(getHeader(m, "to").items)
        \o extractEmails(getHeader(m, "delivered").items)
        \o extractEmails(getHeader(m, "xorig").items)

\* `want` kept in a variable of the module, which the other request writes
GmailRecipientMismatchSharedWant(m, want) ==
    LET w == IF req[2].pc \notin {"idle", "done"} THEN req[2].want ELSE want
    IN  w # "" /\ Len(GmailPool(m)) > 0 /\ ~Includes(GmailPool(m), w)

\* a filter that also rejects a message without recipient headers
GmailRecipientMismatchStrict(m, want) ==
    want # "" /\ ~Includes(GmailPool(m), want)

\* `if (addrPool.length && !addrPool.includes(want)) continue`
GmailRecipientMismatch(m, want) ==
    want # "" /\ Len(GmailPool(m)) > 0 /\ ~Includes(GmailPool(m), want)

\* iCloud: pool of envelope to, cc, bcc (imapflow gives arrays)
EnvelopePool(m) ==
    normalizeToList(AsArray(m.env.to)) \o normalizeToList(AsArray(m.env.cc))
        \o normalizeToList(AsArray(m.env.bcc))

\* iCloud: pool2 of the parsed message: parsed.to/cc/bcc (AddressObject) and
\* the to, delivered-to (AddressObject), x-original-to (string) headers
ParsedPool(m) ==
    normalizeToList(AsAddrObj(m.hdr.to)) \o normalizeToList(AsAddrObj(m.hdr.cc))
        \o normalizeToList(AsAddrObj(m.hdr.bcc))
        \o extractEmails(StringOf(AsAddrObj(m.hdr.to)))
        \o extractEmails(StringOf(AsAddrObj(m.hdr.delivered)))
        \o extractEmails(StringOf(AsString(m.hdr.xorig)))

\* Gmail: snippet first, then the decoded body
GmailExtract(m) ==
    IF extract6Digits(m.snippet) # Null
    THEN [code |-> extract6Digits(m.snippet), where |-> "snippet"]
    ELSE [code |-> extract6Digits(decodeBodyFromPayload(m)), where |-> "body"]

\* iCloud: parsed.text first, then `${text}\n${html}`
ImapExtract(m) ==
    IF extract6Digits(m.plain) # Null
    THEN [code |-> extract6Digits(m.plain), where |-> "text"]
    ELSE [code |-> extract6Digits(m.plain \o <<tNl>> \o m.html), where |-> "parsed"]

Found(x, internalDate) ==
    [NoResult EXCEPT !.found = TRUE, !.code = x.code, !.where = x.where,
                     !.internalDate = internalDate]

NoMessages == [NoResult EXCEPT !.reason = "no_messages"]

\* toIso: the time value, or -1 for the null the catch block returns
toIso(ms) == IF ms > DATE_MAX THEN -1 ELSE ms

\* the final return of getCode without its reason
NoCodeAfterSilent(minTs) == NoResult

NoCodeAfter(minTs) ==
    [NoResult EXCEPT !.reason = "no_code_after", !.reasonTs = toIso(minTs)]

(***************************************************************************)
(* Leaving listRecent / getCode: by return or by throw.  In the iCloud     *)
(* bridge an open session passes through the finally block of withImap.    *)
(***************************************************************************)
\* withImap without its finally block
LeaveWithoutLogout(R) == "respond"

Leave(R) == IF R.session = "open" THEN "logout" ELSE "respond"

Return(R, result) == [R EXCEPT !.result = result, !.err = "", !.pc = Leave(R)]

ThrowAsNotFound(R, msg) ==
    [R EXCEPT !.result = [NoResult EXCEPT !.reason = msg, !.list = R.out],
              !.err = "", !.pc = Leave(R)]

Throw(R, msg) == [R EXCEPT !.result = NoResult, !.err = msg, !.pc = Leave(R)]

\* a getCode that polls: at the end of the loop it lists again and waits
\* for a message to come
ExhaustedPolling(R) ==
    [R EXCEPT !.pc = "list", !.cand = <<>>, !.idx = 0, !.log = <<>>]

\* the end of the for loop of getCode; in the Gmail bridge
\* new Date(minTs).toISOString() throws for a time value out of range
Exhausted(R) ==
    IF R.kind = "recent" THEN Return(R, [NoResult EXCEPT !.list = R.out])
    ELSE IF provider = "gmail" /\ R.minTs > DATE_MAX
         THEN Throw(R, "Invalid time value")
    ELSE Return(R, NoCodeAfter(R.minTs))

ContinueSkippingOne(R) ==
    IF R.idx + 1 < Len(R.cand) THEN [R EXCEPT !.idx = R.idx + 2, !.pc = "scan"]
    ELSE Exhausted(R)

\* `continue`: on to the next candidate, or out of the loop
Continue(R) ==
    IF R.idx < Len(R.cand) THEN [R EXCEPT !.idx = R.idx + 1, !.pc = "scan"]
    ELSE Exhausted(R)


(***************************************************************************)
(* The handler and the steps of listRecent / getCode.  A step ends at an   *)
(* await on the mail backend; `ok` says whether that call succeeds.        *)
(***************************************************************************)
\* messages.get / fetchOne / download read the message and leave the
\* mailbox as it is (imapflow fetches with BODY.PEEK)
ReadMarkingSeen(mb, uid) == [mb EXCEPT ![uid].seen = TRUE]
Peek(mb, uid) == mb

\* the server takes a request once it listens
CanStart(r) == proc = "listening" /\ req[r].pc = "idle"

NewReq(kind) == [IdleReq EXCEPT !.kind = kind]

\* errors written with res.writeHead(status) alone
SendErrorsBare(R, status, body) ==
    [R EXCEPT !.status = status, !.body = body, !.nresp = R.nresp + 1,
              !.headers = IF status >= 400 THEN NoHeaders ELSE JsonHeaders,
              !.pc = "done"]

\* sendJson(res, status, obj), after which the handler returns
Send(R, status, body) ==
    [R EXCEPT !.status = status, !.headers = JsonHeaders, !.body = body,
              !.nresp = R.nresp + 1, !.pc = "done"]

Logged(R, op, uid, ok) == [R EXCEPT !.log = Append(R.log, Call(op, uid, ok))]

\* .listen(PORT, '127.0.0.1', ...): the last statement of the module, which
\* nothing precedes that could throw on missing credentials
Listen ==
    /\ proc = "init"
    /\ proc' = "listening"
    /\ UNCHANGED <<provider, creds, cfg, clock, mailbox, req, exVars, lotVars>>

\* `if (req.method === 'OPTIONS') return sendJson(res, 204, { ok: true })`
Options(r) ==
    /\ CanStart(r)
    /\ req' = [req EXCEPT ![r] =
                 Send(NewReq("options"), 204, [NoBody EXCEPT !.ok = TRUE])]
    /\ UNCHANGED <<provider, creds, cfg, proc, clock, mailbox, exVars, lotVars>>

\* a /health that looks at the credentials first
HealthNeedsCredentials(r) ==
    /\ CanStart(r)
    /\ req' = [req EXCEPT ![r] =
                 IF creds
                 THEN Send(NewReq("health"), 200, [NoBody EXCEPT !.ok = TRUE])
                 ELSE Send(NewReq("health"), 500,
                           [NoBody EXCEPT !.error = "Missing credentials"])]
    /\ UNCHANGED <<provider, creds, cfg, proc, clock, mailbox, exVars, lotVars>>

\* GET /health
Health(r) ==
    /\ CanStart(r)
    /\ req' = [req EXCEPT ![r] =
                 Send(NewReq("health"), 200, [NoBody EXCEPT !.ok = TRUE])]
    /\ UNCHANGED <<provider, creds, cfg, proc, clock, mailbox, exVars, lotVars>>

\* a handler that looks at the credentials before it tells the paths apart
NotFoundAfterCredentials(r) ==
    /\ CanStart(r)
    /\ req' = [req EXCEPT ![r] =
                 IF creds
                 THEN Send(Logged(NewReq("notfound"), "credentials", 0, TRUE), 404,
                           [NoBody EXCEPT !.error = "Not found"])
                 ELSE Send(Logged(NewReq("notfound"), "credentials", 0, FALSE), 500,
                           [NoBody EXCEPT !.error = "Missing credentials"])]
    /\ UNCHANGED <<provider, creds, cfg, proc, clock, mailbox, exVars, lotVars>>

\* any other path
NotFound(r) ==
    /\ CanStart(r)
    /\ req' = [req EXCEPT ![r] =
                 Send(NewReq("notfound"), 404, [NoBody EXCEPT !.error = "Not found"])]
    /\ UNCHANGED <<provider, creds, cfg, proc, clock, mailbox, exVars, lotVars>>

\* what the runtime does with the rejected promise of the async handler:
\* it ends the process (the default since Node 15) or only warns
UnhandledRejection == {"crash", "warn"}

\* a request, other than OPTIONS, whose target or Host header does not parse:
\* `new URL(req.url, ...)` throws before the try block, the handler's promise
\* rejects and no sendJson is reached
BadUrl(r, outcome) ==
    /\ CanStart(r)
    /\ req' = [req EXCEPT ![r] = [NewReq("badurl") EXCEPT !.pc = "unanswered"]]
    /\ proc' = IF outcome = "crash" THEN "crashed" ELSE proc
    /\ UNCHANGED <<provider, creds, cfg, clock, mailbox, exVars, lotVars>>

\* the synchronous start of listRecent / getCode up to the first backend
\* call: Gmail authorize() (credential files), iCloud withImap (user and
\* password), either of which throws when the credentials are missing
Begin(R) ==
    IF ~creds THEN Throw(Logged(R, "credentials", 0, FALSE), "Missing credentials")
    ELSE IF provider = "gmail"
         THEN [Logged(R, "credentials", 0, TRUE) EXCEPT !.pc = "list"]
    ELSE [Logged(R, "credentials", 0, TRUE) EXCEPT !.pc = "connect"]

\* GET /recent?limit=N
StartRecent(r, limit) ==
    /\ CanStart(r)
    /\ req' = [req EXCEPT ![r] =
                 Begin([NewReq("recent") EXCEPT !.limit = limit, !.now = clock])]
    /\ UNCHANGED <<provider, creds, cfg, proc, clock, mailbox, exVars, lotVars>>

\* GET /code?to=..&after=..
StartCode(r, to, after) ==
    /\ CanStart(r)
    /\ req' = [req EXCEPT ![r] =
                 Begin([NewReq("code") EXCEPT
                          !.to = to, !.after = after, !.now = clock,
                          !.want = toLowerCase(to),
                          !.minTs = MinTs(after, clock)])]
    /\ UNCHANGED <<provider, creds, cfg, proc, clock, mailbox, exVars, lotVars>>

\* withImap: await client.connect(), before the try block
Connect(r, ok) ==
    /\ req[r].pc = "connect"
    /\ LET R == Logged(req[r], "connect", 0, ok)
       IN  req' = [req EXCEPT ![r] =
             IF ~ok THEN Throw(R, "connect failed")
             ELSE [R EXCEPT !.session = "open", !.pc = "open"]]
    /\ UNCHANGED <<provider, creds, cfg, proc, clock, mailbox, exVars, lotVars>>

\* withImap: await client.mailboxOpen(ICLOUD_MAILBOX), inside the try block
MailboxOpen(r, ok) ==
    /\ req[r].pc = "open"
    /\ LET R == Logged(req[r], "mailboxOpen", 0, ok)
       IN  req' = [req EXCEPT ![r] =
             IF ~ok THEN Throw(R, "mailboxOpen failed")
             ELSE [R EXCEPT !.pc = "list"]]
    /\ UNCHANGED <<provider, creds, cfg, proc, clock, mailbox, exVars, lotVars>>

\* the candidates of a request, newest first
Candidates(R) ==
    IF provider = "gmail"
    THEN IF R.kind = "code" THEN GmailListCode(mailbox, clock)
         ELSE GmailListRecent(mailbox, clock, R.limit)
    ELSE IF R.kind = "code" THEN ImapNewestCode(ImapSearch(mailbox, R.now))
         ELSE ImapNewestRecent(ImapSearch(mailbox, R.now), R.limit)

\* users.messages.list / client.search and what follows up to the loop
List(r, ok) ==
    /\ req[r].pc = "list"
    /\ LET R == Logged(req[r], "list", 0, ok)
           C == Candidates(R)
       IN  req' = [req EXCEPT ![r] =
             IF ~ok THEN Throw(R, "list failed")
             ELSE IF R.kind = "code" /\ C = <<>> THEN Return(R, NoMessages)
             ELSE IF C = <<>> THEN Exhausted(R)
             ELSE [R EXCEPT !.cand = C, !.idx = 1, !.pc = "scan"]]
    /\ UNCHANGED <<provider, creds, cfg, proc, clock, mailbox, exVars, lotVars>>

\* one iteration of the loop of listRecent
RecentStep(R, m, uid) ==
    IF ~SubjectIncludesKeyword(m.subject) THEN Continue(R)
    ELSE LET R1 == [R EXCEPT !.out = Append(R.out, uid)]
         IN  IF Len(R1.out) >= R.limit THEN Exhausted(R1) ELSE Continue(R1)

\* one iteration of the loop of the Gmail getCode
GmailCodeStep(R, m) ==
    IF TooOld(m.internalDate, R.minTs) THEN Continue(R)
    ELSE IF ~SubjectIncludesKeyword(m.subject) THEN Continue(R)
    ELSE IF GmailRecipientMismatch(m, R.want) THEN Continue(R)
    ELSE IF GmailExtract(m).code # Null
         THEN Return(R, Found(GmailExtract(m), m.internalDate))
    ELSE Continue(R)

\* one iteration of the loop of the iCloud getCode, up to client.download
ImapCodeStep(R, m) ==
    IF TooOld(m.internalDate, R.minTs) THEN Continue(R)
    ELSE IF ~SubjectIncludesKeyword(m.subject) THEN Continue(R)
    ELSE IF R.want = "" THEN [R EXCEPT !.mode = "direct", !.pc = "download"]
    ELSE IF Len(EnvelopePool(m)) > 0
         THEN IF ~Includes(EnvelopePool(m), R.want) THEN Continue(R)
              ELSE [R EXCEPT !.mode = "direct", !.pc = "download"]
    ELSE [R EXCEPT !.mode = "fallback", !.pc = "download"]

\* users.messages.get / client.fetchOne of the current candidate
Fetch(r, ok) ==
    /\ req[r].pc = "scan"
    /\ LET uid == req[r].cand[req[r].idx]
           R == Logged(req[r], "fetch", uid, ok)
           m == mailbox[uid]
       IN  /\ req' = [req EXCEPT ![r] =
                IF ~ok THEN Throw(R, "fetch failed")
                ELSE IF R.kind = "recent" THEN RecentStep(R, m, uid)
                ELSE IF provider = "gmail" THEN GmailCodeStep(R, m)
                ELSE ImapCodeStep(R, m)]
           /\ mailbox' = Peek(mailbox, uid)
    /\ UNCHANGED <<provider, creds, cfg, proc, clock, exVars, lotVars>>

\* a fallback that lets a message of unknown recipient through
ImapParsedStepAllowUnknown(R, m) ==
    IF R.mode = "fallback" /\ Len(ParsedPool(m)) > 0 /\ ~Includes(ParsedPool(m), R.want)
    THEN Continue(R)
    ELSE IF ImapExtract(m).code # Null
         THEN Return(R, Found(ImapExtract(m), m.internalDate))
    ELSE Continue(R)

\* the rest of an iteration of the iCloud getCode, after download + parse
ImapParsedStep(R, m) ==
    IF R.mode = "fallback" /\ Len(ParsedPool(m)) = 0 THEN Continue(R)
    ELSE IF R.mode = "fallback" /\ ~Includes(ParsedPool(m), R.want) THEN Continue(R)
    ELSE IF ImapExtract(m).code # Null
         THEN Return(R, Found(ImapExtract(m), m.internalDate))
    ELSE Continue(R)

\* client.download(uid) and simpleParser(dl.content)
Download(r, ok) ==
    /\ req[r].pc = "download"
    /\ LET uid == req[r].cand[req[r].idx]
           R == Logged(req[r], "download", uid, ok)
       IN  /\ req' = [req EXCEPT ![r] =
                IF ~ok THEN Throw(R, "download failed")
                ELSE ImapParsedStep(R, mailbox[uid])]
           /\ mailbox' = Peek(mailbox, uid)
    /\ UNCHANGED <<provider, creds, cfg, proc, clock, exVars, lotVars>>

\* finally { try { await client.logout() } catch {} }
Logout(r, ok) ==
    /\ req[r].pc = "logout"
    /\ req' = [req EXCEPT ![r] =
                 [Logged(req[r], "logout", 0, ok) EXCEPT
                    !.session = "closed", !.pc = "respond"]]
    /\ UNCHANGED <<provider, creds, cfg, proc, clock, mailbox, exVars, lotVars>>

\* the handler's sendJson(res, 200, { ok: true, ...r }) or, in its catch
\* block, sendJson(res, 500, { ok: false, error })
Respond(r) ==
    /\ req[r].pc = "respond"
    /\ LET R == req[r]
       IN  req' = [req EXCEPT ![r] =
             IF R.err # ""
             THEN Send(R, 500, [NoBody EXCEPT !.error = R.err])
             ELSE Send(R, 200, [NoBody EXCEPT !.ok = TRUE, !.result = R.result])]
    /\ UNCHANGED <<provider, creds, cfg, proc, clock, mailbox, exVars, lotVars>>

\* the handler has returned and the response is out: the request is over
Finish(r) ==
    /\ req[r].pc = "done"
    /\ req' = [req EXCEPT ![r] = IdleReq]
    /\ UNCHANGED <<provider, creds, cfg, proc, clock, mailbox, exVars, lotVars>>

\* extract6Digits(text)
Extract ==
    /\ exPc = "ready"
    /\ exOut' = extract6Digits(exText)
    /\ exPc' = "done"
    /\ UNCHANGED <<exText, bridgeVars, lotVars>>

(***************************************************************************)
(* The lottery scripts: src/gmail_check.js and src/unnamed/part_001        *)
(* (listPokemonLottery), src/icloud_check.js and src/unnamed/part_002      *)
(* (listIcloudLottery).  Each lists the recent mails and folds them into   *)
(* resultMap: address -> 'o' (win) | 'x' (lose).                           *)
(* Subjects are written in ASCII: "tosen" for a subject that contains the  *)
(* win keyword, "kekka" for one that contains the lose keyword, "tosen      *)
(* kekka" for both, "issue" for the new-product issue the iCloud scripts   *)
(* count as a win, "other" for none.                                       *)
(***************************************************************************)
IncludesWinKeyword(subject) == subject \in {"tosen", "tosen kekka"}
IncludesLoseKeyword(subject) == subject \in {"kekka", "tosen kekka"}
IncludesIssue(subject) == subject = "issue"

\* isWinSubject / isWin
isWinSubject(script, subject) ==
    IF script = "gmail" THEN IncludesWinKeyword(subject)
    ELSE IncludesIssue(subject) \/ IncludesWinKeyword(subject)

\* isLoseSubject
isLoseSubject(subject) == IncludesLoseKeyword(subject)

\* /hotmail\.com|outlook\.com/i.test(from)
FromHotmail(from) == \E i \in 1..Len(from) : from[i].addr = "h@hotmail.com"

\* extractEmails of the lottery scripts: as the bridge's, without lower-casing
lotteryExtractEmails(headerValue) ==
    LET kept == SelectSeq(headerValue, LAMBDA e : e.addr # "")
    IN  [i \in 1..Len(kept) |-> kept[i].addr]

\* decideTargetEmails(from, toHeader)
decideTargetEmails(from, toHeader) ==
    IF FromHotmail(from) THEN lotteryExtractEmails(from)
    ELSE lotteryExtractEmails(toHeader)

\* the addresses whose entry of resultMap a mail updates: Gmail the target
\* emails, iCloud the envelope's to list without the empty addresses
TargetsOf(script, m) ==
    IF script = "gmail" THEN decideTargetEmails(m.from, m.to)
    ELSE lotteryExtractEmails(m.to)

LotAddrs == {"a@x", "b@x", "h@hotmail.com"}

\* resultMap.get(mail) is "" (undefined) for an address that has no entry
EmptyMap == [a \in LotAddrs |-> ""]

\* `if (current !== 'o') resultMap.set(mail, 'x')` without its condition
LoseOverwrites(current) == "x"

\* the lose branch: `if (current !== 'o') resultMap.set(mail, 'x')`
LoseUpdate(current) == IF current # "o" THEN "x" ELSE current

RECURSIVE UpdateAll(_, _, _)
\* for (const email of targets) { ... } on resultMap
UpdateAll(map, targets, win) ==
    IF targets = <<>> THEN map
    ELSE LET a == Head(targets)
             next == [map EXCEPT ![a] = IF win THEN "o" ELSE LoseUpdate(map[a])]
         IN  UpdateAll(next, Tail(targets), win)

ShopFrom == <<Named("shop@x")>>
LotMail(subject, to) == [subject |-> subject, from |-> ShopFrom, to |-> to]

LotMsgs ==
    {LotMail(sub, to) :
        sub \in {"tosen", "kekka", "tosen kekka", "other"},
        to \in {<<Named("a@x")>>, <<Named("b@x")>>, <<Named("a@x"), Named("b@x")>>}}
    \cup {LotMail("issue", <<Named("a@x")>>),
          LotMail("kekka", <<Named("")>>),
          [LotMail("kekka", <<Named("a@x")>>) EXCEPT !.from = <<Named("h@hotmail.com")>>]}

MaxLotMsgs == 3

NoLot ==
    [script |-> "none", pc |-> "idle", msgs |-> <<>>, idx |-> 0,
     resultMap |-> EmptyMap, winUnique |-> 0, loseUnique |-> 0,
     totalUnique |-> 0, rows |-> <<>>]
LotIdle == lot = NoLot

\* one iteration of the loop over the listed mails
LotStep ==
    /\ lot.pc = "loop"
    /\ LET m == lot.msgs[lot.idx]
           win == isWinSubject(lot.script, m.subject)
           lose == ~win /\ isLoseSubject(m.subject)
           map == IF ~win /\ ~lose THEN lot.resultMap
                  ELSE UpdateAll(lot.resultMap, TargetsOf(lot.script, m), win)
       IN  lot' = [lot EXCEPT !.resultMap = map,
                              !.idx = lot.idx + 1,
                              !.pc = IF lot.idx = Len(lot.msgs) THEN "done" ELSE "loop"]
    /\ UNCHANGED <<bridgeVars, exVars>>

\* a.mail.localeCompare(b.mail) on the addresses of the model
AddrRank(a) ==
    CASE a = "a@x" -> 1
      [] a = "b@x" -> 2
      [] OTHER -> 3

RECURSIVE SortedAddrs(_)
\* the addresses of S in localeCompare order
SortedAddrs(S) ==
    IF S = {} THEN <<>>
    ELSE LET a == CHOOSE x \in S : \A y \in S : AddrRank(x) <= AddrRank(y)
         IN  <<a>> \o SortedAddrs(S \ {a})

\* the keys of resultMap whose value is v
KeysWith(map, v) == {a \in LotAddrs : map[a] = v}

\* the message-level count winMails.length reported as the unique count
WinMessageCount(l) ==
    Cardinality({i \in 1..Len(l.msgs) : isWinSubject(l.script, l.msgs[i].subject)})

\* [...resultMap.values()].filter(v => v === 'o').length
WinUnique(l) == Cardinality(KeysWith(l.resultMap, "o"))
\* [...resultMap.values()].filter(v => v === 'x').length
LoseUnique(l) == Cardinality(KeysWith(l.resultMap, "x"))
\* resultMap.size
TotalUnique(l) == Cardinality({a \in LotAddrs : l.resultMap[a] # ""})

\* winList and loseList, each sorted by mail, as the data rows of the export
ExportRows(map) ==
    LET win == SortedAddrs(KeysWith(map, "o"))
        lose == SortedAddrs(KeysWith(map, "x"))
    IN  [i \in 1..Len(win) |-> [mail |-> win[i], result |-> "o"]]
            \o [i \in 1..Len(lose) |-> [mail |-> lose[i], result |-> "x"]]

\* after the loop: the unique counts are logged and the rows are written
LotExport ==
    /\ lot.pc = "done"
    /\ lot' = [lot EXCEPT !.winUnique = WinUnique(lot),
                          !.loseUnique = LoseUnique(lot),
                          !.totalUnique = TotalUnique(lot),
                          !.rows = ExportRows(lot.resultMap),
                          !.pc = "exported"]
    /\ UNCHANGED <<bridgeVars, exVars>>

(***************************************************************************)
(* Specifications.                                                         *)
(***************************************************************************)
ToSet == {"", "A@x", "b@x"}
AfterSet == {0, 4, 6, 7, DATE_MAX + 1}
LimitSet == {0, 1, 2}

ExIdle == exText = <<>> /\ exOut = Null /\ exPc = "idle"

\* one request at a time, any mailbox
Init ==
    /\ provider \in {"gmail", "icloud"}
    /\ creds \in BOOLEAN
    /\ cfg \in CfgSet
    /\ proc = "init"
    /\ clock \in NowSet
    /\ mailbox \in SeqsUpTo(MsgDomain, MaxMsgs)
    /\ req = [r \in Slots |-> IdleReq]
    /\ ExIdle
    /\ LotIdle

Steps(r) ==
    \/ \E ok \in BOOLEAN : Connect(r, ok)
    \/ \E ok \in BOOLEAN : MailboxOpen(r, ok)
    \/ \E ok \in BOOLEAN : List(r, ok)
    \/ \E ok \in BOOLEAN : Fetch(r, ok)
    \/ \E ok \in BOOLEAN : Download(r, ok)
    \/ \E ok \in BOOLEAN : Logout(r, ok)
    \/ Respond(r)
    \/ Finish(r)

Next ==
    \/ Listen
    \/ Options(1)
    \/ Health(1)
    \/ NotFound(1)
    \/ \E outcome \in UnhandledRejection : BadUrl(1, outcome)
    \/ \E limit \in LimitSet : StartRecent(1, limit)
    \/ \E to \in ToSet, after \in AfterSet : StartCode(1, to, after)
    \/ Steps(1)

Spec == Init /\ [][Next]_vars

\* extract6Digits on every text of at most MaxTextLen tokens
MaxTextLen == 4
Tokens == {tOpen, tClose, tLabel, tColon, tSp, tNl, tCr, tW, tP, digA, digB}

\* the two labelled forms of a mail body, "【パスコード】d" and "パスコード：d",
\* followed by any text without digits of at most MaxTailLen tokens
MaxTailLen == 2
Codes == {digA, digB}
NonDigitTokens == Tokens \ Codes
Bracketed(d) == <<tOpen, tLabel, tClose, d>>
Colon(d) == <<tLabel, tColon, d>>
LabelledTexts ==
    {p \o tl : p \in {Bracketed(d) : d \in Codes} \cup {Colon(d) : d \in Codes},
               tl \in SeqsUpTo(NonDigitTokens, MaxTailLen)}

InitExtract ==
    /\ provider = "gmail" /\ creds = TRUE /\ cfg \in CfgSet /\ proc = "init"
    /\ clock \in NowSet /\ mailbox = <<>> /\ req = [r \in Slots |-> IdleReq]
    /\ exText \in SeqsUpTo(Tokens, MaxTextLen) \cup LabelledTexts
    /\ exOut = Null
    /\ exPc = "ready"
    /\ LotIdle

NextExtract == Extract

SpecExtract == InitExtract /\ [][NextExtract]_vars


\* two /code requests in flight at once against one mailbox
ConcMsgs ==
    { BaseMsg,
      [BaseMsg EXCEPT !.hdr = [NoHdr EXCEPT !.to = <<Entry("b@x")>>],
                      !.env = [NoEnv EXCEPT !.to = <<"b@x">>]],
      [BaseMsg EXCEPT !.received = 2, !.internalDate = 2] }
ConcToSet == {"A@x", "b@x"}
ConcAfterSet == {0, 6}

InitConc ==
    /\ provider \in {"gmail", "icloud"}
    /\ creds = TRUE
    /\ cfg \in CfgSet
    /\ proc = "init"
    /\ clock \in NowSet
    /\ mailbox \in SeqsUpTo(ConcMsgs, MaxMsgs)
    /\ req = [r \in Slots |-> IdleReq]
    /\ ExIdle
    /\ LotIdle

NextConc ==
    \/ Listen
    \/ \E r \in Slots :
         \/ \E to \in ConcToSet, after \in ConcAfterSet : StartCode(r, to, after)
         \/ Steps(r)

SpecConc == InitConc /\ [][NextConc]_vars

\* /code under every CODE_SCAN_LIMIT, with mail arriving while a request
\* runs.  CODE_SCAN_LIMIT = Number(process.env.CODE_SCAN_LIMIT || 20): the
\* string "0" is truthy, so 0 is a value the configuration can have.
ScanLimitSet == {0, 1, 2}
ScanCfgSet == {[last |-> 2, query |-> 3, scanLimit |-> k] : k \in ScanLimitSet}
ScanMsgs == {BaseMsg, [BaseMsg EXCEPT !.snippet = tNoCode, !.plain = tNoCode]}
ScanAfterSet == {0, 6}

\* a passcode mail is delivered: the backend appends it with the next UID
Arrive ==
    /\ Len(mailbox) < MaxMsgs
    /\ mailbox' = Append(mailbox, [BaseMsg EXCEPT !.received = clock,
                                                  !.internalDate = clock])
    /\ UNCHANGED <<provider, creds, cfg, proc, clock, req, exVars, lotVars>>

InitScan ==
    /\ provider \in {"gmail", "icloud"}
    /\ creds = TRUE
    /\ cfg \in ScanCfgSet
    /\ proc = "init"
    /\ clock \in NowSet
    /\ mailbox \in SeqsUpTo(ScanMsgs, MaxMsgs)
    /\ req = [r \in Slots |-> IdleReq]
    /\ ExIdle
    /\ LotIdle

NextScan ==
    \/ Listen
    \/ Arrive
    \/ \E after \in ScanAfterSet : StartCode(1, "", after)
    \/ Steps(1)

SpecScan == InitScan /\ [][NextScan]_vars

\* Every step of Steps continues the handler after an awaited backend call
\* has settled (resolved or rejected: the step's `ok`); the event loop runs
\* the continuation of a settled promise.  Nothing obliges mail to arrive.
SpecScanFair == SpecScan /\ WF_vars(Steps(1))

\* requests of every kind, two in flight at once, with or without credentials
ServeLimitSet == {1}
ServeToSet == {"A@x"}
ServeAfterSet == {0}

InitServe ==
    /\ provider \in {"gmail", "icloud"}
    /\ creds \in BOOLEAN
    /\ cfg \in CfgSet
    /\ proc = "init"
    /\ clock \in NowSet
    /\ mailbox \in SeqsUpTo(ScanMsgs, MaxMsgs)
    /\ req = [r \in Slots |-> IdleReq]
    /\ ExIdle
    /\ LotIdle

NextServe ==
    \/ Listen
    \/ \E r \in Slots :
         \/ Options(r)
         \/ Health(r)
         \/ NotFound(r)
         \/ \E limit \in ServeLimitSet : StartRecent(r, limit)
         \/ \E to \in ServeToSet, after \in ServeAfterSet : StartCode(r, to, after)
         \/ Steps(r)

SpecServe == InitServe /\ [][NextServe]_vars

\* a run of a lottery script over every list of mails of the bound
InitLottery ==
    /\ provider = "gmail" /\ creds = TRUE /\ cfg \in CfgSet /\ proc = "init"
    /\ clock \in NowSet /\ mailbox = <<>> /\ req = [r \in Slots |-> IdleReq]
    /\ ExIdle
    /\ \E script \in {"gmail", "icloud"}, msgs \in SeqsUpTo(LotMsgs, MaxLotMsgs) \ {<<>>} :
         lot = [NoLot EXCEPT !.script = script, !.pc = "loop", !.msgs = msgs, !.idx = 1]

NextLottery == LotStep \/ LotExport

SpecLottery == InitLottery /\ [][NextLottery]_vars

\* the same /code question asked under several watermarks at one request
\* time: mail stamped before, at and after the bridge's Date.now() (the
\* stamp is the mail server's clock), watermarks on both sides of the
\* now + 60 s limit of the iCloud bridge
MonoMsgs ==
    { BaseMsg,
      [BaseMsg EXCEPT !.received = 5, !.internalDate = 5],
      [BaseMsg EXCEPT !.received = 6, !.internalDate = 6, !.snippet = tBare,
                      !.plain = tBare] }
MonoAfterSet == {4, 6, 7}

InitMono ==
    /\ provider \in {"gmail", "icloud"}
    /\ creds = TRUE
    /\ cfg \in CfgSet
    /\ proc = "init"
    /\ clock \in NowSet
    /\ mailbox \in SeqsUpTo(MonoMsgs, MaxMsgs)
    /\ req = [r \in Slots |-> IdleReq]
    /\ ExIdle
    /\ LotIdle

NextMono ==
    \/ Listen
    \/ \E r \in Slots :
         \/ \E after \in MonoAfterSet : StartCode(r, "", after)
         \/ Steps(r)

SpecMono == InitMono /\ [][NextMono]_vars

\* /code under every pair of windows the environment can set:
\* LAST_MINUTES = Number(process.env.LAST_MINUTES || 5) and
\* QUERY_MINUTES = Number(process.env.QUERY_MINUTES || 60) are read
\* independently and never compared
WindowSet == {1, 2, 3}
WindowCfgSet ==
    {[last |-> l, query |-> q, scanLimit |-> 2] : l \in WindowSet, q \in WindowSet}
WindowMsgs ==
    {[BaseMsg EXCEPT !.received = t, !.internalDate = t] : t \in {2, 3, 4}}
WindowAfterSet == {0, 4}

InitWindow ==
    /\ provider \in {"gmail", "icloud"}
    /\ creds = TRUE
    /\ cfg \in WindowCfgSet
    /\ proc = "init"
    /\ clock \in NowSet
    /\ mailbox \in SeqsUpTo(WindowMsgs, MaxMsgs)
    /\ req = [r \in Slots |-> IdleReq]
    /\ ExIdle
    /\ LotIdle

NextWindow ==
    \/ Listen
    \/ \E after \in WindowAfterSet : StartCode(1, "", after)
    \/ Steps(1)

SpecWindow == InitWindow /\ [][NextWindow]_vars

(***************************************************************************)
(* Properties.                                                             *)
(***************************************************************************)
Done(r) == req[r].pc = "done"
CodeDone(r) == Done(r) /\ req[r].kind = "code"
FoundDone(r) == CodeDone(r) /\ req[r].status = 200 /\ req[r].body.result.found

\* the message the loop of getCode was at when it returned
SourceMsg(r) == mailbox[req[r].cand[req[r].idx]]

BackendOps == {"credentials", "connect", "mailboxOpen", "list", "fetch", "download"}
FailedCalls(log) == {i \in 1..Len(log) : log[i].op \in BackendOps /\ ~log[i].ok}
AllCallsOk(log) == FailedCalls(log) = {}

\* C1: a code is only returned from a message whose receipt timestamp is
\* at least max(watermark, now - LAST_MINUTES), whatever timestamp (also a
\* missing or zero one) the message carries
C1_FreshnessBound ==
    \A r \in Slots :
        FoundDone(r) =>
            SourceMsg(r).internalDate >= Max(req[r].after, req[r].now - cfg.last)

\* every recipient source of a message: To, Cc, Bcc, Delivered-To,
\* X-Original-To, lower-cased
SeqRange(q) == {q[i] : i \in 1..Len(q)}
RecipientUnion(m) ==
    UNION {{toLowerCase(e.addr) : e \in SeqRange(h)} :
             h \in {m.hdr.to, m.hdr.cc, m.hdr.bcc, m.hdr.delivered, m.hdr.xorig}}
        \ {""}

\* C2: with a `to` filter, a message that names any recipient yields a code
\* only if the lower-cased filter is among its recipients
C2_RecipientUnion ==
    \A r \in Slots :
        (FoundDone(r) /\ req[r].want # "" /\ RecipientUnion(SourceMsg(r)) # {})
            => req[r].want \in RecipientUnion(SourceMsg(r))

\* C3: a watermark in the future is replaced by now, so that minTs never
\* exceeds the request time
C3_MinTsNotAfterNow ==
    \A r \in Slots :
        (req[r].kind = "code" /\ AllCallsOk(req[r].log)) => req[r].minTs <= req[r].now

\* the checks of one loop iteration, as conditions on the message
RecipientOk(m, want) ==
    \/ want = ""
    \/ IF provider = "gmail"
       THEN Len(GmailPool(m)) = 0 \/ Includes(GmailPool(m), want)
       ELSE IF Len(EnvelopePool(m)) > 0 THEN Includes(EnvelopePool(m), want)
            ELSE Includes(ParsedPool(m), want)

YieldsCode(m) ==
    IF provider = "gmail"
    THEN extract6Digits(m.snippet) # Null \/ extract6Digits(decodeBodyFromPayload(m)) # Null
    ELSE extract6Digits(m.plain) # Null \/ extract6Digits(m.plain \o <<tNl>> \o m.html) # Null

Eligible(m, want, minTs) ==
    /\ ~(m.internalDate # 0 /\ m.internalDate < minTs)
    /\ SubjectIncludesKeyword(m.subject)
    /\ RecipientOk(m, want)
    /\ YieldsCode(m)

EligibleAt(r) ==
    {i \in 1..Len(req[r].cand) :
        Eligible(mailbox[req[r].cand[i]], req[r].want, req[r].minTs)}

\* the messages fetched (get / fetchOne) by a request, in order
Fetched(r) ==
    LET f == SelectSeq(req[r].log, LAMBDA c : c.op = "fetch")
    IN  [i \in 1..Len(f) |-> f[i].uid]

NewestFirst(c) == \A i, j \in 1..Len(c) : i < j => c[i] > c[j]

\* C4: the candidates are scanned newest first; the code returned is that
\* of the first candidate that passes the timestamp, subject and recipient
\* checks and yields a code, the messages fetched are exactly the candidates
\* up to it, and a scan that ends without a hit passed over no such candidate
C4_FirstHitWins ==
    \A r \in Slots :
        /\ req[r].kind = "code" => NewestFirst(req[r].cand)
        /\ FoundDone(r) =>
              /\ EligibleAt(r) # {}
              /\ req[r].idx = MinOf(EligibleAt(r))
              /\ Fetched(r) = SubSeq(req[r].cand, 1, req[r].idx)
        /\ (CodeDone(r) /\ req[r].status = 200 /\ ~req[r].body.result.found)
              => EligibleAt(r) = {}

C4_Witness ==
    /\ FoundDone(1)
    /\ Len(req[1].cand) = 2
    /\ req[1].idx = 1
    /\ EligibleAt(1) = {1, 2}

\* C5: a /code request that meets no backend failure and finds no eligible
\* message is answered 200 with found=false, code=null and a reason:
\* no_messages for an empty query result, no_code_after_<ts> otherwise
C5_NotFoundIs200 ==
    \A r \in Slots :
        (CodeDone(r) /\ AllCallsOk(req[r].log) /\ EligibleAt(r) = {}) =>
            /\ req[r].status = 200
            /\ ~req[r].body.result.found
            /\ req[r].body.result.code = Null
            /\ req[r].body.result.reason =
                 (IF req[r].cand = <<>> THEN "no_messages" ELSE "no_code_after")

\* C6: a failing backend call of a /recent or /code request ends the
\* request: no call but logout follows it, and the answer is 500 with
\* ok=false, the error message and neither a code nor a list
C6_BackendFailureIs500 ==
    \A r \in Slots :
        (Done(r) /\ req[r].kind \in {"recent", "code"} /\ ~AllCallsOk(req[r].log)) =>
            /\ req[r].status = 500
            /\ ~req[r].body.ok
            /\ req[r].body.error # ""
            /\ req[r].body.result = NoResult
            /\ Cardinality(FailedCalls(req[r].log)) = 1
            /\ \A i \in FailedCalls(req[r].log) :
                 \A j \in (i + 1)..Len(req[r].log) : req[r].log[j].op = "logout"

C6_Witness ==
    /\ Done(1)
    /\ req[1].status = 500
    /\ \E i, j \in 1..Len(req[1].log) :
         /\ i < j
         /\ req[1].log[i].op = "fetch" /\ req[1].log[i].ok
         /\ req[1].log[j].op \in {"fetch", "download"} /\ ~req[1].log[j].ok

\* what a /code request is answered when it runs alone and no call fails
SoloResult(want, minTs, cand) ==
    LET E == {i \in 1..Len(cand) : Eligible(mailbox[cand[i]], want, minTs)}
        m == mailbox[cand[MinOf(E)]]
    IN  IF cand = <<>> THEN NoMessages
        ELSE IF E = {} THEN NoCodeAfter(minTs)
        ELSE Found(IF provider = "gmail" THEN GmailExtract(m) ELSE ImapExtract(m),
                   m.internalDate)

SoloCandidates ==
    IF provider = "gmail" THEN GmailListCode(mailbox, clock)
    ELSE ImapNewestCode(ImapSearch(mailbox, clock))

\* C7: with two /code requests in flight at once, each answer is the one
\* the request gets when it runs alone
C7_NoCrossTalk ==
    \A r \in Slots :
        (CodeDone(r) /\ req[r].status = 200) =>
            req[r].body.result =
                SoloResult(toLowerCase(req[r].to), MinTs(req[r].after, req[r].now),
                           SoloCandidates)

C7_Witness ==
    /\ req[1].pc = "respond" /\ req[1].to = "A@x" /\ req[1].result.found
    /\ req[2].pc = "respond" /\ req[2].to = "b@x" /\ ~req[2].result.found
    /\ req[2].err = "" /\ Len(req[2].cand) = 2

\* C8: without credentials the process never listens
C8_NoCredentialsNoListen == ~creds => proc # "listening"

\* C9: no step of a bridge changes the mailbox: neither the messages nor
\* their flags
C9_MailboxUnchanged == [][mailbox' = mailbox]_vars

C9_Witness ==
    /\ FoundDone(1)
    /\ \E i \in 1..Len(req[1].log) : req[1].log[i].op = "download"
    /\ \A i \in 1..Len(mailbox) : ~mailbox[i].seen

\* C10: the result is the match of the first of the four patterns, in
\* their order, that matches anywhere in the text; the bare six digits are
\* returned only when no label pattern matches
LabelMatches(t) == {Match1(t), Match2(t), Match3(t)} \ {Null}

C10_PatternPriority ==
    exPc = "done" =>
        LET t == Normalize(exText)
        IN  /\ Match1(t) # Null => exOut = Match1(t)
            /\ (Match1(t) = Null /\ Match2(t) # Null) => exOut = Match2(t)
            /\ (Match1(t) = Null /\ Match2(t) = Null /\ Match3(t) # Null)
                  => exOut = Match3(t)
            /\ LabelMatches(t) = {} => exOut = Match4(t)
            /\ LabelMatches(t) # {} => exOut \in LabelMatches(t)

\* a bare run of six digits stands before the labelled code, which is returned
C10_Witness ==
    /\ exPc = "done"
    /\ Len(exText) >= 3
    /\ exText[1] = digB
    /\ exOut = digA.ds
    /\ Match4(Normalize(exText)) = digB.ds

\* the runs of digits of a text, each whole
DigitRuns(t) == {t[j].ds : j \in {i \in 1..Len(t) : t[i].k = "dig"}}

\* C11: a returned code is a whole run of exactly six digits of the text:
\* the six digits are neither preceded nor followed by another digit, so the
\* first six digits of a longer run are never returned
C11_ExactlySixDigits ==
    (exPc = "done" /\ exOut # Null) => exOut \in DigitRuns(Normalize(exText))

HasPrefix(s, p) == Len(s) >= Len(p) /\ SubSeq(s, 1, Len(p)) = p
NoDigits(s) == \A i \in 1..Len(s) : s[i].k # "dig"
After(s, p) == SubSeq(s, Len(p) + 1, Len(s))

\* C12: for every code d, the text "【パスコード】d" and the text
\* "パスコード：d", each followed by any text without digits, yield d
C12_LabelledCode ==
    exPc = "done" =>
        \A d \in Codes : \A p \in {Bracketed(d), Colon(d)} :
            (HasPrefix(exText, p) /\ NoDigits(After(exText, p))) => exOut = d.ds

\* "【パスコード】222222" followed by a letter and one more token
C12_Witness ==
    /\ exPc = "done"
    /\ HasPrefix(exText, Bracketed(digB))
    /\ Len(exText) = Len(Bracketed(digB)) + MaxTailLen
    /\ exText[Len(Bracketed(digB)) + 1] = tW
    /\ exOut = digB.ds

\* C13: a /code request fetches at most CODE_SCAN_LIMIT messages, for
\* every configured CODE_SCAN_LIMIT, 0 included
C13_ScanLimit ==
    \A r \in Slots :
        req[r].kind = "code" => Len(Fetched(r)) <= cfg.scanLimit

\* the calls made on an IMAP session
SessionOps == {"mailboxOpen", "list", "fetch", "download"}
Connected(log) == {i \in 1..Len(log) : log[i].op = "connect" /\ log[i].ok}
LoggedOut(log) == {i \in 1..Len(log) : log[i].op = "logout"}

\* C14: in the iCloud bridge every /recent and /code request works on a
\* session it has opened itself, opens at most one, and has logged it out
\* before its response is sent, on the success path, the not-found path and
\* every path where a call throws after connect; an idle slot holds no session
C14_SessionReleased ==
    \A r \in Slots :
        LET R == req[r]
        IN  provider = "icloud" =>
            /\ Cardinality(Connected(R.log)) <= 1
            /\ \A j \in 1..Len(R.log) :
                   R.log[j].op \in SessionOps \cup {"logout"} =>
                       \E i \in Connected(R.log) : i < j
            /\ R.session = "open" => R.pc \in {"open", "list", "scan", "download", "logout"}
            /\ (R.nresp > 0 /\ Connected(R.log) # {}) =>
                   /\ R.session = "closed"
                   /\ LoggedOut(R.log) = {Len(R.log)}
            /\ R.pc = "idle" => R.session = "none"

\* a download has thrown in the second iteration and the response is out
C14_Witness ==
    /\ provider = "icloud"
    /\ Done(1) /\ req[1].status = 500
    /\ req[1].session = "closed"
    /\ \E i \in 1..Len(req[1].log) :
         req[1].log[i].op = "download" /\ ~req[1].log[i].ok /\ req[1].idx = 2

InFlight(r) == req[r].pc \notin {"idle", "done"}
NoRepeat(q) == \A i, j \in 1..Len(q) : i # j => q[i] # q[j]
Listings(log) == {i \in 1..Len(log) : log[i].op = "list"}

\* C15: every /code request terminates: it lists the mailbox once, fetches
\* each listed message at most once, and then responds, whether or not mail
\* arrives while it runs
C15_Terminates ==
    /\ [](\A r \in Slots :
            req[r].kind = "code" =>
                /\ Cardinality(Listings(req[r].log)) <= 1
                /\ NoRepeat(Fetched(r))
                /\ SeqRange(Fetched(r)) \subseteq SeqRange(req[r].cand))
    /\ \A r \in Slots : InFlight(r) ~> (Done(r) /\ req[r].nresp = 1)

\* answered found=false although an eligible message, which arrived after
\* the listing, is in the mailbox
C15_Witness ==
    /\ CodeDone(1) /\ req[1].status = 200 /\ ~req[1].body.result.found
    /\ cfg.scanLimit > 0
    /\ \E i \in 1..Len(mailbox) :
         /\ Eligible(mailbox[i], req[1].want, req[1].minTs)
         /\ \A k \in 1..Len(req[1].cand) : req[1].cand[k] < i

RecentDone(r) == Done(r) /\ req[r].kind = "recent" /\ AllCallsOk(req[r].log)

\* the keyword messages inside the query window that are newer than uid
NewerKeyword(uid, now) ==
    {i \in (uid + 1)..Len(mailbox) :
        /\ SubjectIncludesKeyword(mailbox[i].subject)
        /\ mailbox[i].received >= now - cfg.query}

\* C16: /recent?limit=N is answered 200 with at most N entries, each of a
\* message whose subject holds the keyword, newest first and without
\* passing over a newer keyword message of the query window
C16_RecentAtMostLimit ==
    \A r \in Slots :
        RecentDone(r) =>
            LET list == req[r].body.result.list
            IN  /\ req[r].status = 200
                /\ Len(list) <= req[r].limit
                /\ \A i \in 1..Len(list) :
                       SubjectIncludesKeyword(mailbox[list[i]].subject)
                /\ NewestFirst(list)
                /\ \A i \in 1..Len(list) :
                       NewerKeyword(list[i], req[r].now) \subseteq SeqRange(list)

\* C17: /health is answered 200 with ok=true and without a backend call,
\* whatever the credentials, the backend and the other requests in flight
C17_HealthAlways200 ==
    \A r \in Slots :
        (Done(r) /\ req[r].kind = "health") =>
            /\ req[r].status = 200
            /\ req[r].body.ok
            /\ req[r].log = <<>>
            /\ req[r].nresp = 1

\* /health answered while the credentials are missing and the other slot's
\* request, which has failed on them, is still in flight
C17_Witness ==
    /\ Done(1) /\ req[1].kind = "health" /\ req[1].status = 200
    /\ ~creds
    /\ InFlight(2) /\ req[2].err # ""

\* C18: every response is sent by sendJson, once, with a JSON content type
\* and Access-Control-Allow-Origin: *, whatever its status
C18_JsonCorsHeaders ==
    \A r \in Slots :
        req[r].nresp > 0 =>
            /\ Done(r) /\ req[r].nresp = 1
            /\ req[r].status \in {200, 204, 404, 500}
            /\ req[r].headers.contentType = "application/json; charset=utf-8"
            /\ req[r].headers.allowOrigin = "*"

\* a 500 and a 404 are out at once
C18_Witness ==
    /\ Done(1) /\ req[1].status = 500 /\ req[1].kind = "code"
    /\ Done(2) /\ req[2].status = 404

\* C19: the source of a returned code is a message whose subject contains
\* the keyword, even when a message without it carries a labelled code and
\* passes the timestamp and recipient checks
C19_SubjectGate ==
    \A r \in Slots :
        FoundDone(r) => SourceMsg(r).subject \in {"kw", "pre kw post"}

\* the newest candidate lacks the keyword, passes every other check and
\* holds a code; the code returned is the next candidate's
C19_Witness ==
    /\ FoundDone(1)
    /\ req[1].idx = 2
    /\ LET m == mailbox[req[1].cand[1]]
       IN  /\ m.subject = "other"
           /\ ~TooOld(m.internalDate, req[1].minTs)
           /\ RecipientOk(m, req[1].want)
           /\ YieldsCode(m)

\* the mails of the run that count as a win / as a lose
WinMails == {i \in 1..Len(lot.msgs) : isWinSubject(lot.script, lot.msgs[i].subject)}
LoseMails ==
    {i \in 1..Len(lot.msgs) : i \notin WinMails /\ isLoseSubject(lot.msgs[i].subject)}
TargetedBy(I) == UNION {SeqRange(TargetsOf(lot.script, lot.msgs[i])) : i \in I}

\* C20: after the loop an address maps to 'o' iff some win mail targeted
\* it and to 'x' iff only lose mails targeted it, in whatever order the
\* mails were processed
C20_WinWins ==
    lot.pc = "done" =>
        \A a \in LotAddrs :
            /\ lot.resultMap[a] = "o" <=> a \in TargetedBy(WinMails)
            /\ lot.resultMap[a] = "x" <=>
                   a \in TargetedBy(LoseMails) \ TargetedBy(WinMails)

\* a lose mail for a@x was processed after a win mail for a@x
C20_Witness ==
    /\ lot.pc = "done"
    /\ lot.resultMap["a@x"] = "o"
    /\ \E i \in WinMails, j \in LoseMails :
         /\ i < j
         /\ "a@x" \in SeqRange(TargetsOf(lot.script, lot.msgs[i]))
         /\ "a@x" \in SeqRange(TargetsOf(lot.script, lot.msgs[j]))

\* the mails whose subject holds the win and the lose keyword
BothMails ==
    {i \in 1..Len(lot.msgs) :
        IncludesWinKeyword(lot.msgs[i].subject) /\ IncludesLoseKeyword(lot.msgs[i].subject)}
RowsOf(a) == {i \in 1..Len(lot.rows) : lot.rows[i].mail = a}

\* C21: in the unique-mailbox exports the counts agree with the rows:
\* winUnique + loseUnique = totalUnique = number of data rows, every address
\* of resultMap has exactly one row, and a mail whose subject holds both
\* keywords counts as a win only
C21_CountsMatchRows ==
    lot.pc = "exported" =>
        /\ lot.winUnique + lot.loseUnique = lot.totalUnique
        /\ lot.totalUnique = Len(lot.rows)
        /\ lot.winUnique = Cardinality({i \in 1..Len(lot.rows) : lot.rows[i].result = "o"})
        /\ lot.loseUnique = Cardinality({i \in 1..Len(lot.rows) : lot.rows[i].result = "x"})
        /\ \A a \in LotAddrs :
               Cardinality(RowsOf(a)) = IF a \in TargetedBy(WinMails \cup LoseMails) THEN 1 ELSE 0
        /\ \A a \in TargetedBy(BothMails) : \A i \in RowsOf(a) : lot.rows[i].result = "o"

\* two win mails for a@x, one of them with both keywords, and a lose mail
\* for b@x: two rows
C21_Witness ==
    /\ lot.pc = "exported"
    /\ Len(lot.msgs) = 3
    /\ "a@x" \in TargetedBy(BothMails)
    /\ Cardinality(WinMails) = 2
    /\ lot.rows = <<[mail |-> "a@x", result |-> "o"], [mail |-> "b@x", result |-> "x"]>>

\* every recipient source of a message is empty: envelope to/cc/bcc and
\* the To, Cc, Bcc, Delivered-To and X-Original-To headers
NoRecipients(m) ==
    /\ RecipientUnion(m) = {}
    /\ m.env.to = <<>> /\ m.env.cc = <<>> /\ m.env.bcc = <<>>

\* C22: in the iCloud bridge, with a `to` filter, a message all of whose
\* recipient sources are empty is never the source of a returned code
C22_UnknownRecipientRejected ==
    \A r \in Slots :
        (provider = "icloud" /\ FoundDone(r) /\ req[r].want # "")
            => ~NoRecipients(SourceMsg(r))

\* the newest candidate names no recipient, is fresh, has the keyword and
\* holds a code; it was downloaded and passed over
C22_Witness ==
    /\ provider = "icloud"
    /\ FoundDone(1) /\ req[1].want # ""
    /\ req[1].idx = 2
    /\ LET m == mailbox[req[1].cand[1]]
       IN  /\ NoRecipients(m)
           /\ ~TooOld(m.internalDate, req[1].minTs)
           /\ m.subject = "kw"
           /\ YieldsCode(m)
    /\ \E i \in 1..Len(req[1].log) :
         req[1].log[i].op = "download" /\ req[1].log[i].uid = req[1].cand[1]

\* a candidate that passes the timestamp and subject checks and holds a code
PassesButRecipient(m, minTs) ==
    /\ ~(m.internalDate # 0 /\ m.internalDate < minTs)
    /\ m.subject \in {"kw", "pre kw post"}
    /\ YieldsCode(m)

\* C23: in the Gmail bridge a `to` filter rejects a message only when the
\* pool of its To, Delivered-To and X-Original-To headers is non-empty and
\* lacks the filter; a message with an empty pool stays eligible and its
\* code is returned
C23_GmailEmptyPoolEligible ==
    \A r \in Slots :
        (provider = "gmail" /\ CodeDone(r) /\ req[r].status = 200 /\ req[r].want # "") =>
            LET last == IF req[r].body.result.found THEN req[r].idx - 1
                        ELSE Len(req[r].cand)
            IN  /\ \A i \in 1..last :
                       LET m == mailbox[req[r].cand[i]]
                       IN  PassesButRecipient(m, req[r].minTs) =>
                               /\ Len(GmailPool(m)) > 0
                               /\ ~Includes(GmailPool(m), req[r].want)
                /\ req[r].body.result.found =>
                       \/ Len(GmailPool(SourceMsg(r))) = 0
                       \/ Includes(GmailPool(SourceMsg(r)), req[r].want)

\* a code returned under a filter from a message without recipient headers
C23_Witness ==
    /\ provider = "gmail"
    /\ FoundDone(1) /\ req[1].want = "a@x"
    /\ SourceMsg(1).hdr = NoHdr

\* a label pattern (one of the first three) matches in the text
HasLabelled(text) == LabelMatches(Normalize(text)) # {}

\* the text sources of a message and the text the returned code came from
TextSources(m) ==
    IF provider = "gmail" THEN {m.snippet, decodeBodyFromPayload(m)}
    ELSE {m.plain, m.html}
SupplyingText(m, where) ==
    CASE where = "snippet" -> m.snippet
      [] where = "body" -> decodeBodyFromPayload(m)
      [] where = "text" -> m.plain
      [] OTHER -> m.plain \o <<tNl>> \o m.html

\* C24: a code supplied by the bare six-digit fallback is returned only when
\* no label pattern matches in any text source of the message
C24_FallbackLastResort ==
    \A r \in Slots :
        (FoundDone(r) /\ ~HasLabelled(SupplyingText(SourceMsg(r), req[r].body.result.where)))
            => \A t \in TextSources(SourceMsg(r)) : ~HasLabelled(t)

\* a message the request must find: keyword subject, the filter among its
\* recipients, receipt timestamp >= max(watermark, now - LAST_MINUTES) and
\* an extractable code
MustFind(m, r) ==
    /\ m.subject \in {"kw", "pre kw post"}
    /\ (req[r].want = "" \/ req[r].want \in RecipientUnion(m))
    /\ m.internalDate >= Max(req[r].after, req[r].now - cfg.last)
    /\ YieldsCode(m)

\* the messages the mailbox held when the request was made
HeldAtRequest(r) == {i \in 1..Len(mailbox) : mailbox[i].received < req[r].now}

\* C25: a /code request none of whose backend calls fails returns
\* found=true whenever the mailbox held, at request time, a message that
\* satisfies the subject, recipient, timestamp and code conditions (stated
\* here for a CODE_SCAN_LIMIT of at least one)
C25_EligibleIsFound ==
    \A r \in Slots :
        (CodeDone(r) /\ AllCallsOk(req[r].log) /\ cfg.scanLimit >= 1
            /\ \E i \in HeldAtRequest(r) : MustFind(mailbox[i], r))
        => (req[r].status = 200 /\ req[r].body.result.found)

\* C26: every request the server accepts gets exactly one response, with
\* status 200, 204, 404 or 500, also when its target does not parse as a
\* URL; none is left without a response and none is answered twice
C26_ExactlyOneResponse ==
    \A r \in Slots :
        /\ req[r].pc # "unanswered"
        /\ req[r].nresp <= 1
        /\ Done(r) => (req[r].nresp = 1 /\ req[r].status \in {200, 204, 404, 500})

IsSixDigits(code) ==
    /\ code # Null
    /\ Len(code) = CODE_LEN
    /\ \A i \in 1..Len(code) : code[i] \in 0..9

\* C27: in every /code response with status 200, found is true exactly when
\* code is a non-null string of six digits; a found=true body carries the
\* internalDate of the message the code was taken from and no reason, and a
\* found=false body carries code = null and a reason.
C27_FoundIffCode ==
    \A r \in Slots :
        (CodeDone(r) /\ req[r].status = 200) =>
            LET b == req[r].body.result
            IN  /\ b.found <=> IsSixDigits(b.code)
                /\ b.found => (/\ b.internalDate = SourceMsg(r).internalDate
                               /\ b.reason = "")
                /\ ~b.found => (b.code = Null /\ b.reason # "")

\* C27 witness: a code has been returned from a message with a timestamp
C27_Witness ==
    \E r \in Slots :
        /\ FoundDone(r)
        /\ IsSixDigits(req[r].body.result.code)
        /\ req[r].body.result.internalDate # 0
        /\ req[r].body.result.internalDate = SourceMsg(r).internalDate

\* the status the handler gives to a request it answers by itself
OwnStatus(kind) ==
    CASE kind = "options" -> 204
      [] kind = "health" -> 200
      [] kind = "notfound" -> 404
      [] OTHER -> 0

\* C28: OPTIONS requests, GET /health and requests for a path other than
\* /recent and /code are answered with 204, 200 and 404 without a read of
\* the credentials and without a mail-backend session; only /recent and
\* /code requests ever hold a backend call or a session.
C28_OnlyMailRoutesTouchBackend ==
    \A r \in Slots :
        /\ (Done(r) /\ req[r].kind \in {"options", "health", "notfound"}) =>
               /\ req[r].status = OwnStatus(req[r].kind)
               /\ req[r].log = <<>>
               /\ req[r].session = "none"
        /\ (req[r].log # <<>> \/ req[r].session # "none") =>
               req[r].kind \in {"recent", "code"}

\* C28 witness: an unknown path has been answered 404 by a server that has
\* no credentials
C28_Witness ==
    \E r \in Slots :
        /\ Done(r)
        /\ req[r].kind = "notfound"
        /\ req[r].status = 404
        /\ req[r].log = <<>>
        /\ ~creds

\* a /code request answered 200 with every backend call successful
Answered(r) == CodeDone(r) /\ req[r].status = 200 /\ AllCallsOk(req[r].log)

\* C29: for one mailbox, one request time and one `to` filter, /code is
\* monotone in the watermark: when the request with watermark w2 returns
\* found=true, the request with a watermark w1 <= w2 returns found=true
\* too, from a message at least as early in the scan order.
C29_MonotoneInWatermark ==
    \A r1, r2 \in Slots :
        ( /\ Answered(r1) /\ Answered(r2)
          /\ req[r1].to = req[r2].to
          /\ req[r1].now = req[r2].now
          /\ req[r1].after <= req[r2].after
          /\ req[r2].body.result.found )
        => /\ req[r1].body.result.found
           /\ req[r1].idx <= req[r2].idx

\* the mailbox query of the request has been answered
Listed(r) ==
    \E k \in 1..Len(req[r].log) : req[r].log[k].op = "list" /\ req[r].log[k].ok

\* C30: the query's lookback window covers the freshness window for every
\* configured pair (LAST_MINUTES, QUERY_MINUTES): a message received at or
\* after max(watermark, now - LAST_MINUTES) is in the candidate list unless
\* the keyword filter or the scan limit, not the time bound, kept it out.
C30_QueryCoversFreshness ==
    \A r \in Slots :
        (req[r].kind = "code" /\ Listed(r)) =>
            \A i \in 1..Len(mailbox) :
                ( /\ mailbox[i].received >= req[r].minTs
                  /\ SubjectIncludesKeyword(mailbox[i].subject)
                  /\ Len(req[r].cand) < cfg.scanLimit )
                => \E k \in 1..Len(req[r].cand) : req[r].cand[k] = i

====
